---- MODULE Spec2Model ----
(***************************************************************************)
(* String utilities of cp-library (src/src/string.rs): z_array, the cyclic *)
(* dictionary of basic factors DBF (from, last_row, get_repr, cmp),        *)
(* suffix_array and lcp; and of its containers (src/src/ds) SegTree (from, *)
(* query, update) and SortedVec::lower_bound on binsearch::first_true.     *)
(* Spec is the caller of string.rs, SpecSegTree the caller of a SegTree    *)
(* and SpecSortedVec the caller of a SortedVec.                            *)
(*                                                                         *)
(* A Vec or slice is a function on 0..len-1, so indices are the source's.  *)
(* A caller owns one input slice `arr`, calls the public functions one     *)
(* after the other and drops each returned value before the next call.     *)
(* Loops with data-dependent exits (the two `while` loops and the          *)
(* do-while of DBF::from) are stepped one iteration per action; a panic    *)
(* (index out of bounds, failed debug_assert) ends the run in pc="panic".  *)
(* Builds are debug builds: debug_assert! is checked.                      *)
(***************************************************************************)
EXTENDS Integers, FiniteSets

\* Bounds of the exhaustively enumerated inputs.
MaxLen == 4
Sigma == 3

----------------------------------------------------------------------------
\* Vec helpers

Len(v) == Cardinality(DOMAIN v)

Vec(n, x) == [j \in 0..(n - 1) |-> x]

Push(v, x) == [j \in 0..Len(v) |-> IF j < Len(v) THEN v[j] ELSE x]

FromTuple(t) == [j \in 0..(Len(t) - 1) |-> t[j + 1]]

Min(a, b) == IF a <= b THEN a ELSE b

\* "banana".as_bytes() and "anananasso".as_bytes(), the inputs of the doc tests
Banana == FromTuple(<<98, 97, 110, 97, 110, 97>>)

Anananasso == FromTuple(<<97, 110, 97, 110, 97, 110, 97, 115, 115, 111>>)

DocInputs == {Banana, Anananasso}

BoundedInputs == UNION {[0..(n - 1) -> 0..(Sigma - 1)] : n \in 0..MaxLen}

Inputs == BoundedInputs \cup DocInputs

----------------------------------------------------------------------------
\* Option<&T> with the derived order: None below every Some, Some(a) and
\* Some(b) ordered as a and b (string.rs 245-249)
None == 0

Some(x) == x + 1

\* Augment with the sentinel above every element instead of below
AugmentSentinelMax(a) == [j \in 0..Len(a) |-> IF j < Len(a) THEN a[j] ELSE 256]

\* Augment without the chained sentinel
AugmentNoSentinel(a) == [j \in 0..(Len(a) - 1) |-> Some(a[j])]

\* arr.iter().map(Some).chain(once(None)) (string.rs 245-249)
Augment(a) == [j \in 0..Len(a) |-> IF j < Len(a) THEN Some(a[j]) ELSE None]

Bool(b) == IF b THEN 1 ELSE 0

\* 1 << k
Shl1(k) == 2 ^ k

----------------------------------------------------------------------------
\* DBF::from, the pure parts (string.rs 62-133)

\* KeyLeq for a descending sort
KeyGeq(a, p, q) == a[p] >= a[q]

\* line 66: the key comparison of the level-0 sort
KeyLeq(a, p, q) == a[p] <= a[q]

\* line 66: every result an unstable sort by key may give: the orders of the
\* positions in `rem` with non-decreasing keys, ties in any order
RECURSIVE SortedFrom(_, _)
SortedFrom(a, rem) ==
    IF rem = {} THEN {<<>>}
    ELSE LET last == {c \in rem : \A d \in rem : KeyLeq(a, d, c)}
         IN  UNION {{Push(t, c) : t \in SortedFrom(a, rem \ {c})} : c \in last}

sort_unstable_by_key(a) == SortedFrom(a, DOMAIN a)

\* lines 71-73: for i in 1..n, row[order[i]] = row[order[i-1]] + (arr differs)
RECURSIVE Level0Loop(_, _, _, _)
Level0Loop(a, ord, rw, ii) ==
    IF ii >= Len(a) THEN rw
    ELSE Level0Loop(a, ord,
            [rw EXCEPT ![ord[ii]] = rw[ord[ii - 1]] + Bool(a[ord[ii]] # a[ord[ii - 1]])],
            ii + 1)

\* Level0Row with the sort position as rank
Level0RowByPosition(a, ord) ==
    [p \in DOMAIN a |-> CHOOSE j \in DOMAIN ord : ord[j] = p]

\* lines 68-73: the level-0 row
Level0Row(a, ord) == Level0Loop(a, ord, [Vec(Len(a), 0) EXCEPT ![ord[0]] = 0], 1)

\* lines 84-86 and 103-105: for v in last_row, freq[v] += 1
RECURSIVE CountLoop(_, _, _)
CountLoop(freq, last, p) ==
    IF p >= Len(last) THEN freq
    ELSE CountLoop([freq EXCEPT ![last[p]] = freq[last[p]] + 1], last, p + 1)

\* lines 87-91 and 106-110: acc += freq[i]; freq[i] = acc - freq[i]
RECURSIVE AccLoop(_, _, _)
AccLoop(freq, acc, ii) ==
    IF ii >= Len(freq) THEN freq
    ELSE AccLoop([freq EXCEPT ![ii] = (acc + freq[ii]) - freq[ii]], acc + freq[ii], ii + 1)

\* lines 81-91 and 100-110: the first free slot of every rank value
Starts(last, n) == AccLoop(CountLoop(Vec(n, 0), last, 0), 0, 0)

\* Off without the doubling
OffOne(tab) == 1

\* line 93: off = 1 << (dbf.len() - 1)
Off(tab) == Shl1(Len(tab) - 1)

\* Pass1Loop keyed by the first component: the offset is forgotten
RECURSIVE Pass1LoopNoOff(_, _, _, _, _)
Pass1LoopNoOff(last, off, rw, freq, ii) ==
    IF ii >= Len(last) THEN rw
    ELSE LET elem == last[ii]
         IN  Pass1LoopNoOff(last, off, [rw EXCEPT ![freq[elem]] = ii],
                            [freq EXCEPT ![elem] = freq[elem] + 1], ii + 1)

\* lines 94-98: the pass by the second component, written into row
RECURSIVE Pass1Loop(_, _, _, _, _)
Pass1Loop(last, off, rw, freq, ii) ==
    IF ii >= Len(last) THEN rw
    ELSE LET elem == last[(ii + off) % Len(last)]
         IN  Pass1Loop(last, off, [rw EXCEPT ![freq[elem]] = ii],
                       [freq EXCEPT ![elem] = freq[elem] + 1], ii + 1)

\* Pass2Loop reading row from its end: the pass is no longer stable
RECURSIVE Pass2LoopReversed(_, _, _, _, _)
Pass2LoopReversed(last, rw, ord, freq, p) ==
    IF p >= Len(rw) THEN ord
    ELSE LET pos == rw[Len(rw) - 1 - p]
             elem == last[pos]
         IN  Pass2LoopReversed(last, rw, [ord EXCEPT ![freq[elem]] = pos],
                               [freq EXCEPT ![elem] = freq[elem] + 1], p + 1)

\* lines 112-116: the pass by the first component, for i in &row, into order
RECURSIVE Pass2Loop(_, _, _, _, _)
Pass2Loop(last, rw, ord, freq, p) ==
    IF p >= Len(rw) THEN ord
    ELSE LET elem == last[rw[p]]
         IN  Pass2Loop(last, rw, [ord EXCEPT ![freq[elem]] = rw[p]],
                       [freq EXCEPT ![elem] = freq[elem] + 1], p + 1)

\* PairDiffers on the first component only
PairDiffersFirst(last, off, p, q) == last[p] # last[q]

\* PairDiffers on the second component only
PairDiffersSecond(last, off, p, q) ==
    last[(p + off) % Len(last)] # last[(q + off) % Len(last)]

\* lines 121-124: fst_pair != snd_pair for the positions p and q
PairDiffers(last, off, p, q) ==
    <<last[p], last[(p + off) % Len(last)]>> # <<last[q], last[(q + off) % Len(last)]>>

\* RankLoop with the sort position as the rank of a new key
RECURSIVE RankLoopByPosition(_, _, _, _, _)
RankLoopByPosition(last, off, ord, rw, ii) ==
    IF ii >= Len(last) THEN rw
    ELSE RankLoopByPosition(last, off, ord,
            [rw EXCEPT ![ord[ii]] = IF PairDiffers(last, off, ord[ii], ord[ii - 1])
                                    THEN ii ELSE rw[ord[ii - 1]]],
            ii + 1)

\* lines 120-125: the new ranks along order
RECURSIVE RankLoop(_, _, _, _, _)
RankLoop(last, off, ord, rw, ii) ==
    IF ii >= Len(last) THEN rw
    ELSE RankLoop(last, off, ord,
            [rw EXCEPT ![ord[ii]] = rw[ord[ii - 1]] + Bool(PairDiffers(last, off, ord[ii], ord[ii - 1]))],
            ii + 1)

\* lines 79-98: row after the first pass
RoundRow1(tab, rw) ==
    LET last == tab[Len(tab) - 1]
    IN  Pass1Loop(last, Off(tab), rw, Starts(last, Len(last)), 0)

\* lines 100-116: order after the second pass
RoundOrder(tab, rw, ord) ==
    LET last == tab[Len(tab) - 1]
    IN  Pass2Loop(last, RoundRow1(tab, rw), ord, Starts(last, Len(last)), 0)

\* lines 118-125: row at the end of the round
RoundRow(tab, rw, ord) ==
    LET last == tab[Len(tab) - 1]
        ord2 == RoundOrder(tab, rw, ord)
    IN  RankLoop(last, Off(tab), ord2, [RoundRow1(tab, rw) EXCEPT ![ord2[0]] = 0], 1)

\* DoWhileCond with <= for <
DoWhileCondLeq(tab, n) == Shl1(Len(tab) - 1) <= n

\* line 129: the condition of the do-while, on the table after the push
DoWhileCond(tab, n) == Shl1(Len(tab) - 1) < n

----------------------------------------------------------------------------
\* The read-only methods of DBF (string.rs 151-225); self = [n, dbf]

\* the first row instead of the last
last_rowFirst(self) == self.dbf[0]

\* line 152
last_row(self) == self.dbf[Len(self.dbf) - 1]

\* the number of significant bits of a u64
RECURSIVE BitLen(_)
BitLen(x) == IF x = 0 THEN 0 ELSE 1 + BitLen(x \div 2)

\* u64::leading_zeros
leading_zeros(x) == 64 - BitLen(x)

\* ValidRange without the upper bound
ValidRangeNoUpper(self, lo, hi) == lo < hi

\* lines 181, 214, 215: the condition of the debug_assert
ValidRange(self, lo, hi) == lo < hi /\ hi <= self.n

\* get_repr reading the block at lo twice
get_reprFirstBlock(self, lo, hi) ==
    LET h == 63 - leading_zeros(hi - lo)
    IN  <<self.dbf[h][lo], self.dbf[h][lo]>>

\* lines 183-187
get_repr(self, lo, hi) ==
    LET h == 63 - leading_zeros(hi - lo)
    IN  <<self.dbf[h][lo], self.dbf[h][(hi - Shl1(h)) % self.n]>>

\* lines 183-187: no arithmetic overflow (r - l, 63 - leading_zeros), no
\* remainder by zero and every index in bounds, as a debug build checks them
ReprInBounds(self, lo, hi) ==
    /\ hi - lo >= 1
    /\ self.n > 0
    /\ (63 - leading_zeros(hi - lo)) \in DOMAIN self.dbf
    /\ lo \in DOMAIN self.dbf[63 - leading_zeros(hi - lo)]

\* Ord::cmp on usize
OrdCmp(a, b) == IF a < b THEN "Less" ELSE IF a = b THEN "Equal" ELSE "Greater"

\* Ord::cmp on (usize, usize): lexicographic
PairCmp(p, q) == IF p[1] # q[1] THEN OrdCmp(p[1], q[1]) ELSE OrdCmp(p[2], q[2])

\* CmpMatch without the tie-break on the lengths
CmpMatchNoTie(order_, len1, len2) == order_

\* lines 221-224: the match on the order of the representatives
CmpMatch(order_, len1, len2) == IF order_ = "Equal" THEN OrdCmp(len1, len2) ELSE order_

\* lines 217-224
cmp(self, l1, r1, l2, r2) ==
    LET common_length == Min(r1 - l1, r2 - l2)
        repr1 == get_repr(self, l1, l1 + common_length)
        repr2 == get_repr(self, l2, l2 + common_length)
    IN  CmpMatch(PairCmp(repr1, repr2), r1 - l1, r2 - l2)

\* lines 217-219: no overflow in r1 - l1 and r2 - l2, and both calls of
\* get_repr pass their debug_assert and their checks
CmpInBounds(self, l1, r1, l2, r2) ==
    /\ r1 >= l1
    /\ r2 >= l2
    /\ LET common_length == Min(r1 - l1, r2 - l2)
       IN  /\ ValidRange(self, l1, l1 + common_length)
           /\ ReprInBounds(self, l1, l1 + common_length)
           /\ ValidRange(self, l2, l2 + common_length)
           /\ ReprInBounds(self, l2, l2 + common_length)

----------------------------------------------------------------------------
\* suffix_array and lcp, the pure parts (string.rs 243-306)

\* lines 254-258: for (i, &x) in last_row: if x != 0, suffix_array[x - 1] = i
RECURSIVE InvertLoop(_, _, _)
InvertLoop(last, sa, p) ==
    IF p >= Len(last) THEN sa
    ELSE InvertLoop(last, IF last[p] # 0 THEN [sa EXCEPT ![last[p] - 1] = p] ELSE sa, p + 1)

\* lines 283-286: for (i, &x) in suffix_array: inv[x] = i
RECURSIVE InvLoop(_, _, _)
InvLoop(sa, iv, p) ==
    IF p >= Len(sa) THEN iv
    ELSE InvLoop(sa, [iv EXCEPT ![sa[p]] = p], p + 1)

\* line 296: the condition of the extension loop
LcpWhileCond(a, ii, j, kk) ==
    ii + kk < Len(a) /\ j + kk < Len(a) /\ a[ii + kk] = a[j + kk]

\* saturating_sub that subtracts nothing
saturating_subNone(kk, d) == kk

\* line 301: k.saturating_sub(1)
saturating_sub(kk, d) == IF kk >= d THEN kk - d ELSE 0

----------------------------------------------------------------------------
VARIABLES
    arr,            \* the caller's input slice
    tbl,            \* the DBF the caller built over arr, NoDBF before
    op,             \* the public function being executed, "none" between calls
    pc,             \* position inside it
    z, l, r,        \* z_array locals; l and r also those of first_true
    i,              \* index of the running `for` loop
    src,            \* DBF::from: the slice it was given
    order, row, dbf,    \* DBF::from locals
    suffix_array,   \* suffix_array and lcp: the suffix array
    inv, lcp, k,    \* lcp locals
    ret,            \* the value last returned to the caller
    st,             \* the SegTree the caller built, NoSeg before
    array,          \* the slice given to SegTree::from, with the caller's updates
    updated,        \* whether the caller has called update since SegTree::from
    sv,             \* the arr of the caller's SortedVec
    v               \* lower_bound: the value searched for

\* the state of the containers of ds/
xvars == <<st, array, updated, sv, v>>

zvars == <<z, l, r>>

dvars == <<src, order, row, dbf>>

lvars == <<suffix_array, inv, lcp, k>>

vars == <<arr, tbl, op, pc, z, l, r, i, src, order, row, dbf, suffix_array, inv, lcp, k, ret,
          st, array, updated, sv, v>>

NoRet == [op |-> "none", args |-> <<>>, val |-> <<>>]

NoDBF == [n |-> 0, dbf |-> <<>>]

NoSeg == [arr |-> <<>>, size |-> 0, built |-> FALSE]

Ready == pc = "idle" /\ ret = NoRet

ZReset == z' = <<>> /\ l' = 0 /\ r' = 0

DReset == src' = <<>> /\ order' = <<>> /\ row' = <<>> /\ dbf' = <<>>

LReset == suffix_array' = <<>> /\ inv' = <<>> /\ lcp' = <<>> /\ k' = 0

\* nothing called yet, whatever the caller holds
Fresh ==
    /\ tbl = NoDBF
    /\ op = "none"
    /\ pc = "idle"
    /\ z = <<>> /\ l = 0 /\ r = 0
    /\ i = 0
    /\ src = <<>> /\ order = <<>> /\ row = <<>> /\ dbf = <<>>
    /\ suffix_array = <<>> /\ inv = <<>> /\ lcp = <<>> /\ k = 0
    /\ ret = NoRet

\* the caller holds a slice for the functions of string.rs
Init ==
    /\ arr \in Inputs
    /\ Fresh
    /\ st = NoSeg /\ array = <<>> /\ updated = FALSE /\ sv = <<>> /\ v = 0

\* A panic unwinds the running call: its locals are gone, nothing is returned.
Panic ==
    /\ pc' = "panic"
    /\ ZReset /\ DReset /\ LReset
    /\ i' = 0
    /\ ret' = NoRet

\* A call returns val to the caller: its locals are gone.
Return(val) ==
    /\ pc' = "idle"
    /\ ZReset /\ DReset /\ LReset
    /\ i' = 0
    /\ ret' = val

\* The caller drops the value it was given.
Drop ==
    /\ pc = "idle"
    /\ ret # NoRet
    /\ ret' = NoRet
    /\ op' = "none"
    /\ UNCHANGED <<arr, xvars, tbl, pc, zvars, i, dvars, lvars>>

----------------------------------------------------------------------------
\* z_array (string.rs 19-39)

\* ZSeed with r taken as the last index of the window
ZSeedInclusive(zz, ll, rr, ii) == IF ii <= rr THEN Min(rr - ii + 1, zz[ii - ll]) ELSE zz[ii]

\* ZSeed without the min against the window
ZSeedNoMin(zz, ll, rr, ii) == IF ii <= rr THEN zz[ii - ll] ELSE zz[ii]

\* lines 26-28: the seed of z[i] from the window
ZSeed(zz, ll, rr, ii) == IF ii <= rr THEN Min(rr - ii, zz[ii - ll]) ELSE zz[ii]

\* line 29: the condition of the extension loop
ZWhileCond(a, zz, ii) == ii + zz[ii] < Len(zz) /\ a[ii + zz[ii]] = a[zz[ii]]

\* lines 20-24: z = vec![0; n]; l = 0; r = 0; z[0] = arr.len(), which is out of
\* bounds on the empty slice
ZCall ==
    /\ Ready
    /\ op' = "z_array"
    /\ IF Len(arr) = 0
       THEN Panic /\ UNCHANGED <<arr, xvars, tbl>>
       ELSE /\ z' = [Vec(Len(arr), 0) EXCEPT ![0] = Len(arr)]
            /\ l' = 0
            /\ r' = 0
            /\ i' = 1
            /\ pc' = "z_for"
            /\ UNCHANGED <<arr, xvars, tbl, dvars, lvars, ret>>

\* lines 25-28: next i of the for loop, seed z[i]
ZFor ==
    /\ pc = "z_for"
    /\ i < Len(arr)
    /\ z' = [z EXCEPT ![i] = ZSeed(z, l, r, i)]
    /\ pc' = "z_while"
    /\ UNCHANGED <<arr, xvars, tbl, op, l, r, i, dvars, lvars, ret>>

\* the body of the extension loop without its increment
ZExtendNone(zz, ii) == zz

\* line 30: z[i] += 1
ZExtend(zz, ii) == [zz EXCEPT ![ii] = zz[ii] + 1]

\* lines 29-31: one iteration of the extension loop
ZWhile ==
    /\ pc = "z_while"
    /\ ZWhileCond(arr, z, i)
    /\ z' = ZExtend(z, i)
    /\ UNCHANGED <<arr, xvars, tbl, op, pc, l, r, i, dvars, lvars, ret>>

\* lines 32-35: the loop exits, the window moves if the match ends past r
ZWindow ==
    /\ pc = "z_while"
    /\ ~ZWhileCond(arr, z, i)
    /\ IF i + z[i] > r
       THEN l' = i /\ r' = i + z[i]
       ELSE UNCHANGED <<l, r>>
    /\ i' = i + 1
    /\ pc' = "z_for"
    /\ UNCHANGED <<arr, xvars, tbl, op, z, dvars, lvars, ret>>

\* line 38: the for loop is over, z is returned
ZReturn ==
    /\ pc = "z_for"
    /\ i >= Len(arr)
    /\ Return([op |-> "z_array", args |-> <<>>, val |-> z])
    /\ UNCHANGED <<arr, xvars, tbl, op>>

----------------------------------------------------------------------------
\* DBF::from (string.rs 62-133)

\* DBF::from(arr) called by the caller
DBFCall ==
    /\ Ready
    /\ tbl = NoDBF
    /\ op' = "DBF::from"
    /\ src' = arr
    /\ pc' = "dbf_level0"
    /\ UNCHANGED <<arr, xvars, tbl, zvars, i, order, row, dbf, lvars, ret>>

\* lines 63-76: the level-0 sort and row; order[0] is out of bounds on the
\* empty slice
DBFLevel0 ==
    /\ pc = "dbf_level0"
    /\ IF Len(src) = 0
       THEN Panic /\ UNCHANGED <<arr, xvars, tbl, op>>
       ELSE \E ord \in sort_unstable_by_key(src) :
                /\ order' = ord
                /\ row' = Level0Row(src, ord)
                /\ dbf' = Push(<<>>, row')
                /\ pc' = "dbf_while"
                /\ UNCHANGED <<arr, xvars, tbl, op, zvars, i, src, lvars, ret>>

\* lines 84-86: freq[*v] is in bounds for every v of the last row
RanksInRange(tab, n) == \A p \in 0..(n - 1) : tab[Len(tab) - 1][p] < n

\* lines 78-130: one round of the do-while, body and condition
DBFRound ==
    /\ pc = "dbf_while"
    /\ IF ~RanksInRange(dbf, Len(src))
       THEN Panic /\ UNCHANGED <<arr, xvars, tbl, op>>
       ELSE /\ order' = RoundOrder(dbf, row, order)
            /\ row' = RoundRow(dbf, row, order)
            /\ dbf' = Push(dbf, row')
            /\ pc' = IF DoWhileCond(dbf', Len(src)) THEN "dbf_while" ELSE "dbf_ret"
            /\ UNCHANGED <<arr, xvars, tbl, op, zvars, i, src, lvars, ret>>

\* line 132: Self { n, dbf } goes to the caller of DBF::from
DBFReturn ==
    /\ pc = "dbf_ret"
    /\ op = "DBF::from"
    /\ tbl' = [n |-> Len(src), dbf |-> dbf]
    /\ op' = "none"
    /\ Return(NoRet)
    /\ UNCHANGED <<arr, xvars>>

----------------------------------------------------------------------------
\* DBF::get_repr and DBF::cmp (string.rs 180-225)

\* lines 151-153: a copy of the last row
LastRow ==
    /\ Ready
    /\ tbl # NoDBF
    /\ op' = "last_row"
    /\ ret' = [op |-> "last_row", args |-> <<>>, val |-> last_row(tbl)]
    /\ UNCHANGED <<arr, xvars, tbl, pc, zvars, i, dvars, lvars>>

\* lines 180-188, with the debug_assert of line 181
GetRepr ==
    /\ Ready
    /\ tbl # NoDBF
    /\ op' = "get_repr"
    /\ \E lo, hi \in 0..(tbl.n + 1) :
          IF ~(ValidRange(tbl, lo, hi) /\ ReprInBounds(tbl, lo, hi))
          THEN Panic /\ UNCHANGED <<arr, xvars, tbl>>
          ELSE /\ ret' = [op |-> "get_repr", args |-> <<lo, hi>>, val |-> get_repr(tbl, lo, hi)]
               /\ UNCHANGED <<arr, xvars, tbl, pc, zvars, i, dvars, lvars>>

\* lines 213-225, with the debug_asserts of lines 214-215
Cmp ==
    /\ Ready
    /\ tbl # NoDBF
    /\ op' = "cmp"
    /\ \E l1, r1, l2, r2 \in 0..(tbl.n + 1) :
          IF ~(ValidRange(tbl, l1, r1) /\ ValidRange(tbl, l2, r2)
                 /\ CmpInBounds(tbl, l1, r1, l2, r2))
          THEN Panic /\ UNCHANGED <<arr, xvars, tbl>>
          ELSE /\ ret' = [op |-> "cmp", args |-> <<l1, r1, l2, r2>>,
                           val |-> cmp(tbl, l1, r1, l2, r2)]
               /\ UNCHANGED <<arr, xvars, tbl, pc, zvars, i, dvars, lvars>>

----------------------------------------------------------------------------
\* suffix_array (string.rs 243-261)

\* lines 244-250: the padded slice goes to DBF::from
SuffixArrayCall ==
    /\ Ready
    /\ op' = "suffix_array"
    /\ src' = Augment(arr)
    /\ pc' = "dbf_level0"
    /\ UNCHANGED <<arr, xvars, tbl, zvars, i, order, row, dbf, lvars, ret>>

\* lines 251-258: the last row inverted; suffix_array[x - 1] is out of bounds
\* for a rank x above n
SAInvert ==
    /\ pc = "dbf_ret"
    /\ op \in {"suffix_array", "lcp"}
    /\ LET n == Len(arr)
           last == last_row([n |-> Len(src), dbf |-> dbf])
       IN  IF \E p \in DOMAIN last : last[p] > n
           THEN Panic /\ UNCHANGED <<arr, xvars, tbl, op>>
           ELSE /\ suffix_array' = InvertLoop(last, Vec(n, 0), 0)
                /\ pc' = "sa_ret"
                /\ DReset
                /\ UNCHANGED <<arr, xvars, tbl, op, zvars, i, inv, lcp, k, ret>>

\* line 260
SAReturn ==
    /\ pc = "sa_ret"
    /\ op = "suffix_array"
    /\ Return([op |-> "suffix_array", args |-> <<>>, val |-> suffix_array])
    /\ UNCHANGED <<arr, xvars, tbl, op>>

----------------------------------------------------------------------------
\* lcp (string.rs 279-306)

\* lines 280-281: suffix_array(arr) is called
LcpCall ==
    /\ Ready
    /\ op' = "lcp"
    /\ src' = Augment(arr)
    /\ pc' = "dbf_level0"
    /\ UNCHANGED <<arr, xvars, tbl, zvars, i, order, row, dbf, lvars, ret>>

\* lines 283-289: inv, lcp = vec![0; n], k = 0
LcpInv ==
    /\ pc = "sa_ret"
    /\ op = "lcp"
    /\ inv' = InvLoop(suffix_array, Vec(Len(arr), 0), 0)
    /\ lcp' = Vec(Len(arr), 0)
    /\ k' = 0
    /\ i' = 0
    /\ pc' = "lcp_for"
    /\ UNCHANGED <<arr, xvars, tbl, op, zvars, dvars, suffix_array, ret>>

\* lines 291-293: the suffix at i is the last one in sorted order
LcpLast ==
    /\ pc = "lcp_for"
    /\ i < Len(arr)
    /\ inv[i] = Len(arr) - 1
    /\ k' = 0
    /\ i' = i + 1
    /\ UNCHANGED <<arr, xvars, tbl, op, pc, zvars, dvars, suffix_array, inv, lcp, ret>>

\* lines 294-295: it has a right neighbour j = suffix_array[inv[i] + 1]
LcpEnter ==
    /\ pc = "lcp_for"
    /\ i < Len(arr)
    /\ inv[i] # Len(arr) - 1
    /\ pc' = "lcp_while"
    /\ UNCHANGED <<arr, xvars, tbl, op, zvars, i, dvars, lvars, ret>>

\* lines 296-298: one iteration of the extension loop
LcpWhile ==
    /\ pc = "lcp_while"
    /\ LcpWhileCond(arr, i, suffix_array[inv[i] + 1], k)
    /\ k' = k + 1
    /\ UNCHANGED <<arr, xvars, tbl, op, pc, zvars, i, dvars, suffix_array, inv, lcp, ret>>

\* lines 300-301: the loop exits, k is recorded and decremented
LcpRecord ==
    /\ pc = "lcp_while"
    /\ ~LcpWhileCond(arr, i, suffix_array[inv[i] + 1], k)
    /\ lcp' = [lcp EXCEPT ![inv[i] + 1] = k]
    /\ k' = saturating_sub(k, 1)
    /\ i' = i + 1
    /\ pc' = "lcp_for"
    /\ UNCHANGED <<arr, xvars, tbl, op, zvars, dvars, suffix_array, inv, ret>>

\* line 305
LcpReturn ==
    /\ pc = "lcp_for"
    /\ i >= Len(arr)
    /\ Return([op |-> "lcp", args |-> <<>>, val |-> <<suffix_array, lcp>>])
    /\ UNCHANGED <<arr, xvars, tbl, op>>

----------------------------------------------------------------------------
\* SegTree (ds/segtree.rs) over the free monoid: an element is a word over the
\* generators 0..Gens-1, op is concatenation and ID the empty word, so that an
\* equation between products that holds here holds in every monoid.

\* Bounds of the enumerated segment trees.
MaxSize == 4
Gens == 2

\* Monoid::ID (math/algebra/mod.rs 21)
ID == <<>>

\* Magma::op (math/algebra/mod.rs 7)
MonoidOp(x, y) ==
    [j \in 0..(Len(x) + Len(y) - 1) |-> IF j < Len(x) THEN x[j] ELSE y[j - Len(x)]]

\* the values the caller stores: the identity and the generators
Elems == {ID} \cup {Vec(1, g) : g \in 0..(Gens - 1)}

SegInputs == UNION {[0..(n - 1) -> Elems] : n \in 0..MaxSize}

\* segtree.rs 51-55: the identities, then the leaves
Leaves(a) ==
    [j \in 0..(2 * Len(a) - 1) |-> IF j >= Len(a) THEN a[j - Len(a)] ELSE ID]

\* segtree.rs 57-59: for i in (1..size).rev(), from index j downwards
RECURSIVE BuildLoop(_, _)
BuildLoop(t, j) ==
    IF j < 1 THEN t
    ELSE BuildLoop([t EXCEPT ![j] = MonoidOp(t[2 * j], t[2 * j + 1])], j - 1)

\* segtree.rs 49-62
from(a) == [arr |-> BuildLoop(Leaves(a), Len(a) - 1), size |-> Len(a), built |-> TRUE]

\* segtree.rs 88
QueryAssert(s, lo, hi) == lo <= hi /\ hi <= s.size

\* the right answer combined on the wrong side
CombineRightSwapped(x, ansr) == MonoidOp(ansr, x)

\* segtree.rs 101: self.arr[r].clone().op(ans_r)
CombineRight(x, ansr) == MonoidOp(x, ansr)

\* segtree.rs 94-105: the while loop on the shifted bounds
RECURSIVE QueryLoop(_, _, _, _, _)
QueryLoop(t, lo, hi, ansl, ansr) ==
    IF ~(lo < hi) THEN <<ansl, ansr>>
    ELSE LET ansl1 == IF lo % 2 = 1 THEN MonoidOp(ansl, t[lo]) ELSE ansl
             lo1 == IF lo % 2 = 1 THEN lo + 1 ELSE lo
             hi1 == IF hi % 2 = 1 THEN hi - 1 ELSE hi
             ansr1 == IF hi % 2 = 1 THEN CombineRight(t[hi1], ansr) ELSE ansr
         IN  QueryLoop(t, lo1 \div 2, hi1 \div 2, ansl1, ansr1)

\* segtree.rs 90-107
query(s, lo, hi) ==
    LET ans == QueryLoop(s.arr, lo + s.size, hi + s.size, ID, ID)
    IN  MonoidOp(ans[1], ans[2])

\* segtree.rs 147
UpdateAssert(s, pos) == pos < s.size

\* segtree.rs 152-157: the do-while, pos already written
RECURSIVE UpdateLoop(_, _)
UpdateLoop(t, pos) ==
    LET p == pos \div 2
    IN  IF ~(p > 0) THEN t
        ELSE UpdateLoop([t EXCEPT ![p] = MonoidOp(t[2 * p], t[2 * p + 1])], p)

\* segtree.rs 149-157
update(s, pos, val) ==
    [s EXCEPT !.arr = UpdateLoop([s.arr EXCEPT ![pos + s.size] = val], pos + s.size)]

\* let mut x = SegTree::from(&array)
SegFrom ==
    /\ Ready
    /\ st = NoSeg
    /\ op' = "SegTree::from"
    /\ st' = from(array)
    /\ UNCHANGED <<arr, tbl, pc, zvars, i, dvars, lvars, ret, array, updated, sv, v>>

\* x.query(lo, hi), with the debug_assert of line 88
SegQuery ==
    /\ Ready
    /\ st # NoSeg
    /\ op' = "query"
    /\ \E lo, hi \in 0..(st.size + 1) :
          IF ~QueryAssert(st, lo, hi)
          THEN Panic /\ UNCHANGED <<arr, tbl, xvars>>
          ELSE /\ ret' = [op |-> "query", args |-> <<lo, hi>>, val |-> query(st, lo, hi)]
               /\ UNCHANGED <<arr, tbl, pc, zvars, i, dvars, lvars, xvars>>

\* x.update(pos, &val), with the debug_assert of line 147; the caller notes the
\* value it stored
SegUpdate ==
    /\ Ready
    /\ st # NoSeg
    /\ op' = "update"
    /\ \E pos \in 0..st.size, val \in Elems :
          IF ~UpdateAssert(st, pos)
          THEN Panic /\ UNCHANGED <<arr, tbl, xvars>>
          ELSE /\ st' = update(st, pos, val)
               /\ array' = [array EXCEPT ![pos] = val]
               /\ updated' = TRUE
               /\ UNCHANGED <<arr, tbl, pc, zvars, i, dvars, lvars, ret, sv, v>>

\* the caller holds a slice for SegTree::from
InitSegTree ==
    /\ arr = <<>>
    /\ Fresh
    /\ st = NoSeg /\ array \in SegInputs /\ updated = FALSE /\ sv = <<>> /\ v = 0

NextSegTree ==
    \/ Drop
    \/ SegFrom
    \/ SegQuery
    \/ SegUpdate

SpecSegTree == InitSegTree /\ [][NextSegTree]_vars

----------------------------------------------------------------------------
\* SortedVec::lower_bound (ds/sorted_vec.rs 88-90) on first_true
\* (binsearch.rs 87-107), with N = usize

\* sorted_vec.rs 131: arr.sort_unstable(), the values of a in non-decreasing order
sort_unstable(a) ==
    [j \in DOMAIN a |->
        CHOOSE x \in {a[p] : p \in DOMAIN a} :
            /\ Cardinality({p \in DOMAIN a : a[p] <= x}) > j
            /\ Cardinality({p \in DOMAIN a : a[p] < x}) <= j]

\* sorted_vec.rs 130-133: the SortedVecs that From<Vec<T>> makes
SortedVecs == {sort_unstable(a) : a \in BoundedInputs}

\* binsearch.rs 21
midpoint(x, y) == (y + x) \div 2

\* binsearch.rs 24
close_enough(x, y) == y - x <= 1

\* sorted_vec.rs 89: the index of self[idx] is checked
IndexInBounds(a, idx) == idx \in DOMAIN a

\* sorted_vec.rs 89: |idx| &self[idx] >= v
predicate(a, val, idx) == a[idx] >= val

\* arr.lower_bound(&val): first_true(0, self.len(), ..) is entered
LowerBoundCall ==
    /\ Ready
    /\ op' = "lower_bound"
    /\ v' \in 0..Sigma
    /\ l' = 0
    /\ r' = Len(sv)
    /\ pc' = "ft_first"
    /\ UNCHANGED <<arr, tbl, z, i, dvars, lvars, ret, st, array, updated, sv>>

\* binsearch.rs 92-94: predicate(l) is evaluated before anything else, and it
\* indexes self[l]
FtFirst ==
    /\ pc = "ft_first"
    /\ IF ~IndexInBounds(sv, l)
       THEN Panic /\ UNCHANGED <<arr, tbl, op, xvars>>
       ELSE IF predicate(sv, v, l)
       THEN Return([op |-> "lower_bound", args |-> <<v>>, val |-> l])
            /\ UNCHANGED <<arr, tbl, op, xvars>>
       ELSE /\ pc' = "ft_while"
            /\ UNCHANGED <<arr, tbl, op, zvars, i, dvars, lvars, ret, xvars>>

\* binsearch.rs 97-104: one iteration of the while loop
FtWhile ==
    /\ pc = "ft_while"
    /\ ~close_enough(l, r)
    /\ LET m == midpoint(l, r)
       IN  IF ~IndexInBounds(sv, m)
           THEN Panic /\ UNCHANGED <<arr, tbl, op, xvars>>
           ELSE /\ IF predicate(sv, v, m)
                   THEN r' = m /\ l' = l
                   ELSE l' = m /\ r' = r
                /\ UNCHANGED <<arr, tbl, op, pc, z, i, dvars, lvars, ret, xvars>>

\* binsearch.rs 97, 106: the loop ends and r is returned
FtReturn ==
    /\ pc = "ft_while"
    /\ close_enough(l, r)
    /\ Return([op |-> "lower_bound", args |-> <<v>>, val |-> r])
    /\ UNCHANGED <<arr, tbl, op, xvars>>

\* the caller holds a SortedVec made from a Vec
InitSortedVec ==
    /\ arr = <<>>
    /\ Fresh
    /\ st = NoSeg /\ array = <<>> /\ updated = FALSE /\ sv \in SortedVecs /\ v = 0

NextSortedVec ==
    \/ Drop
    \/ LowerBoundCall
    \/ FtFirst
    \/ FtWhile
    \/ FtReturn

SpecSortedVec == InitSortedVec /\ [][NextSortedVec]_vars

----------------------------------------------------------------------------
Next ==
    \/ Drop
    \/ ZCall
    \/ ZFor
    \/ ZWhile
    \/ ZWindow
    \/ ZReturn
    \/ DBFCall
    \/ DBFLevel0
    \/ DBFRound
    \/ DBFReturn
    \/ LastRow
    \/ GetRepr
    \/ Cmp
    \/ SuffixArrayCall
    \/ SAInvert
    \/ SAReturn
    \/ LcpCall
    \/ LcpInv
    \/ LcpLast
    \/ LcpEnter
    \/ LcpWhile
    \/ LcpRecord
    \/ LcpReturn

Spec == Init /\ [][Next]_vars

\* a step of a call that has been entered and has not returned, the two steps
\* of DBF::from apart
Running ==
    \/ ZFor \/ ZWhile \/ ZWindow \/ ZReturn
    \/ DBFReturn
    \/ SAInvert \/ SAReturn
    \/ LcpInv \/ LcpLast \/ LcpEnter \/ LcpWhile \/ LcpRecord \/ LcpReturn

\* WF_vars(DBFLevel0) and WF_vars(DBFRound) with ENABLED written out: each of
\* the two is enabled exactly at its pc, where it either panics or goes on
DBFKeepsRunning ==
    /\ []<>(pc # "dbf_level0") \/ []<><<DBFLevel0>>_vars
    /\ []<>(pc # "dbf_while") \/ []<><<DBFRound>>_vars

\* the caller holds one of the enumerated slices
InitLive ==
    /\ arr \in BoundedInputs
    /\ Fresh
    /\ st = NoSeg /\ array = <<>> /\ updated = FALSE /\ sv = <<>> /\ v = 0

\* the caller of string.rs with calls that keep running once entered: the
\* functions are synchronous, so a running call takes its next step
SpecLive == InitLive /\ [][Next]_vars /\ WF_vars(Running) /\ DBFKeepsRunning

----------------------------------------------------------------------------
\* Reference definitions: direct element-by-element comparison

\* the least element of a non-empty set of numbers
Least(S) == CHOOSE x \in S : \A y \in S : x <= y

\* the order of the substrings [l1, r1) and [l2, r2) of a, a proper prefix smaller
LexCmp(a, l1, r1, l2, r2) ==
    LET m == Min(r1 - l1, r2 - l2)
        D == {t \in 0..(m - 1) : a[l1 + t] # a[l2 + t]}
    IN  IF D = {}
        THEN IF r1 - l1 < r2 - l2 THEN "Less"
             ELSE IF r1 - l1 = r2 - l2 THEN "Equal" ELSE "Greater"
        ELSE IF a[l1 + Least(D)] < a[l2 + Least(D)] THEN "Less" ELSE "Greater"

\* the suffix of a at p is not greater than the suffix at q
SuffixLeq(a, p, q) == LexCmp(a, p, Len(a), q, Len(a)) \in {"Less", "Equal"}

\* the length of the longest common prefix of the suffixes of a at p and at q
CommonPrefix(a, p, q) ==
    LET m == Len(a) - (IF p >= q THEN p ELSE q)
        D == {t \in 0..(m - 1) : a[p + t] # a[q + t]}
    IN  IF D = {} THEN m ELSE Least(D)

\* the cyclic substrings of length len at p and at q are identical
CycEq(a, p, q, len) == \A t \in 0..(len - 1) : a[(p + t) % Len(a)] = a[(q + t) % Len(a)]

\* the cyclic substring of length len at p is smaller than the one at q
CycLess(a, p, q, len) ==
    LET D == {t \in 0..(len - 1) : a[(p + t) % Len(a)] # a[(q + t) % Len(a)]}
    IN  D # {} /\ a[(p + Least(D)) % Len(a)] < a[(q + Least(D)) % Len(a)]

\* the smallest h with 2^h >= n
RECURSIVE CeilLog2From(_, _)
CeilLog2From(n, h) == IF 2 ^ h >= n THEN h ELSE CeilLog2From(n, h + 1)

CeilLog2(n) == CeilLog2From(n, 0)

----------------------------------------------------------------------------
\* C1: suffix_array returns an array of length n in which every index of
\* [0, n) occurs exactly once.
SuffixArrayIsPermutation ==
    ret.op = "suffix_array" =>
        /\ DOMAIN ret.val = 0..(Len(arr) - 1)
        /\ \A x \in 0..(Len(arr) - 1) :
              Cardinality({p \in DOMAIN ret.val : ret.val[p] = x}) = 1

SuffixArrayReturned ==
    /\ ret.op = "suffix_array"
    /\ Len(arr) = MaxLen
    /\ \E p \in DOMAIN ret.val : ret.val[p] # p
    /\ \E p, q \in DOMAIN arr : p # q /\ arr[p] = arr[q]

\* C2: the suffix at suffix_array[p] is lexicographically not greater than
\* the suffix at suffix_array[p+1], by direct comparison, for every p in [0, n-1).
SuffixArraySorted ==
    ret.op = "suffix_array" =>
        \A p \in 0..(Len(arr) - 2) : SuffixLeq(arr, ret.val[p], ret.val[p + 1])

SuffixArrayOfBanana ==
    /\ ret.op = "suffix_array"
    /\ arr = Banana
    /\ ret.val = FromTuple(<<5, 3, 1, 0, 4, 2>>)

\* C3: lcp returns the LCP array: as long as the input, lcp[0] = 0, and lcp[p]
\* for p in [1, n) is the length of the longest common prefix of the suffixes
\* at suffix_array[p-1] and suffix_array[p], by direct comparison.
LcpIsCommonPrefix ==
    ret.op = "lcp" =>
        /\ DOMAIN ret.val[2] = 0..(Len(arr) - 1)
        /\ Len(arr) >= 1 => ret.val[2][0] = 0
        /\ \A p \in 1..(Len(arr) - 1) :
              ret.val[2][p] = CommonPrefix(arr, ret.val[1][p - 1], ret.val[1][p])

LcpOfBanana ==
    /\ ret.op = "lcp"
    /\ arr = Banana
    /\ ret.val[2] = FromTuple(<<0, 1, 3, 0, 0, 2>>)

\* C4: cmp(l1, r1, l2, r2) on valid ranges returns the lexicographic order of
\* the substrings [l1, r1) and [l2, r2) found by direct comparison.
CmpIsLexicographic ==
    ret.op = "cmp" =>
        ret.val = LexCmp(arr, ret.args[1], ret.args[2], ret.args[3], ret.args[4])

\* an answer decided by the tie-break: one range a proper prefix of the other
CmpOfProperPrefix ==
    /\ ret.op = "cmp"
    /\ ret.val = "Less"
    /\ ret.args[1] # ret.args[3]
    /\ ret.args[2] - ret.args[1] = 3
    /\ ret.args[4] - ret.args[3] > 3
    /\ \A t \in 0..2 : arr[ret.args[1] + t] = arr[ret.args[3] + t]

\* C5: get_repr(a, a+len) = get_repr(b, b+len) iff the substrings [a, a+len)
\* and [b, b+len) are element-wise identical, for every len and valid starts.
ReprEqualIffIdentical ==
    ret.op = "get_repr" =>
        LET a == ret.args[1]
            len == ret.args[2] - ret.args[1]
        IN  \A b \in 0..(tbl.n - len) :
                (get_repr(tbl, b, b + len) = ret.val)
                    <=> (\A t \in 0..(len - 1) : arr[a + t] = arr[b + t])

\* a representative of a length that is no power of two, shared by two starts
ReprSharedByTwoStarts ==
    /\ ret.op = "get_repr"
    /\ ret.args[2] - ret.args[1] = 3
    /\ \E b \in 0..(tbl.n - 3) :
          b # ret.args[1] /\ get_repr(tbl, b, b + 3) = ret.val

\* C6: z_array on a sequence of length n >= 1 returns z of length n with
\* z[0] = n and z[p], p in [1, n), the length of the longest common prefix of
\* the sequence and its suffix at p, by direct comparison.
ZIsCommonPrefix ==
    ret.op = "z_array" =>
        /\ DOMAIN ret.val = 0..(Len(arr) - 1)
        /\ ret.val[0] = Len(arr)
        /\ \A p \in 1..(Len(arr) - 1) : ret.val[p] = CommonPrefix(arr, 0, p)

ZOfAnananasso ==
    /\ ret.op = "z_array"
    /\ arr = Anananasso
    /\ ret.val = FromTuple(<<10, 0, 5, 0, 3, 0, 1, 0, 0, 0>>)

\* C7: z_array on the empty sequence returns the empty array and does not fail.
ZOfEmptyReturnsEmpty ==
    (op = "z_array" /\ Len(arr) = 0) =>
        /\ pc # "panic"
        /\ ret.op = "z_array" => ret.val = <<>>

\* C8: at every level h of a built table, two positions have the same rank
\* iff the cyclic substrings of length 2^h starting at them are identical.
RankEqualIffCyclicEqual ==
    pc = "dbf_ret" =>
        \A h \in DOMAIN dbf : \A p, q \in DOMAIN src :
            (dbf[h][p] = dbf[h][q]) <=> CycEq(src, p, q, 2 ^ h)

\* a table whose last level is longer than the sequence, with a repeated rank
\* at a level above 0
TableWithWrappedLevel ==
    /\ pc = "dbf_ret"
    /\ 2 ^ (Len(dbf) - 1) > Len(src)
    /\ \E p, q \in DOMAIN src : p # q /\ dbf[1][p] = dbf[1][q]

\* C9 as claimed: for every n >= 1, n = 1 included, the table holds exactly
\* the levels 0..h for the smallest h with 2^h >= n.
LevelsUpToCeilLog2 ==
    pc = "dbf_ret" => Len(dbf) = CeilLog2(Len(src)) + 1

\* C9 amended: for n >= 2 the table holds exactly the levels 0..h for the
\* smallest h with 2^h >= n; for n = 1 the do-while still runs one round and
\* the table holds the levels 0 and 1.
LevelsUpToCeilLog2AtLeastOne ==
    pc = "dbf_ret" =>
        Len(dbf) = (IF Len(src) = 1 THEN 1 ELSE CeilLog2(Len(src))) + 1

TableOfFiveHasFourLevels ==
    /\ pc = "dbf_ret"
    /\ Len(src) = 5
    /\ Len(dbf) = 4

\* C10: last_row() returns n values that order the cyclic rotations: smaller
\* value iff lexicographically smaller rotation, equal value iff identical
\* rotation.
LastRowOrdersRotations ==
    ret.op = "last_row" =>
        /\ DOMAIN ret.val = 0..(Len(arr) - 1)
        /\ \A p, q \in DOMAIN arr :
              /\ (ret.val[p] < ret.val[q]) <=> CycLess(arr, p, q, Len(arr))
              /\ (ret.val[p] = ret.val[q]) <=> CycEq(arr, p, q, Len(arr))

LastRowOfBanana ==
    /\ ret.op = "last_row"
    /\ arr = Banana
    /\ ret.val = FromTuple(<<3, 2, 5, 1, 4, 0>>)

\* C11 as claimed: the last row of the table suffix_array builds over the
\* sentinel-padded "banana" is [3,2,5,1,4,0].
PaddedBananaLastRowAsClaimed ==
    (pc = "dbf_ret" /\ op = "suffix_array" /\ arr = Banana) =>
        last_row([n |-> Len(src), dbf |-> dbf]) = FromTuple(<<3, 2, 5, 1, 4, 0>>)

\* C11 amended: the last row of the table suffix_array builds over the
\* sentinel-padded "banana" has 7 entries and is [4,3,6,2,5,1,0]: the sentinel
\* has rank 0 and every real position one more than its place among the suffixes.
PaddedBananaLastRow ==
    (pc = "dbf_ret" /\ op = "suffix_array" /\ arr = Banana) =>
        last_row([n |-> Len(src), dbf |-> dbf]) = FromTuple(<<4, 3, 6, 2, 5, 1, 0>>)

PaddedBananaTableBuilt ==
    /\ pc = "dbf_ret"
    /\ op = "suffix_array"
    /\ arr = Banana
    /\ src = Augment(Banana)
    /\ Len(dbf) = 4

\* the rank values of level h of the table under construction
RankSet(h) == {dbf[h][p] : p \in DOMAIN src}

\* C12: at every level the rank values are exactly 0..m-1 for some m with
\* 1 <= m <= n, so they all lie in [0, n) and no index into the counting array
\* is out of range: construction over a non-empty sequence never panics.
RanksAreDense ==
    /\ pc \in {"dbf_while", "dbf_ret"} =>
          \A h \in DOMAIN dbf :
              /\ RankSet(h) = 0..(Cardinality(RankSet(h)) - 1)
              /\ Cardinality(RankSet(h)) >= 1
              /\ Cardinality(RankSet(h)) <= Len(src)
    /\ (pc = "panic" /\ op = "DBF::from") => Len(arr) = 0
    /\ op \in {"suffix_array", "lcp"} => pc # "panic"

TableWithFewerRanksThanPositions ==
    /\ pc = "dbf_ret"
    /\ Len(dbf) >= 3
    /\ Cardinality(RankSet(1)) > 1
    /\ Cardinality(RankSet(Len(dbf) - 1)) < Len(src)

\* the ranges of a returned get_repr or cmp are valid for a sequence of length n
ArgsValid(a, n) ==
    /\ a[1] < a[2] /\ a[2] <= n
    /\ Len(a) = 4 => (a[3] < a[4] /\ a[4] <= n)

\* C13: in a debug build a call of get_repr or cmp either returns a value, and
\* then every range it was given satisfies l < r <= n, or it aborts without
\* returning anything: a range with l >= r or r > n never yields a value.
InvalidRangeAborts ==
    [][(ret = NoRet /\ op' \in {"get_repr", "cmp"}) =>
          \/ pc' = "panic" /\ ret' = NoRet
          \/ pc' = "idle" /\ ret'.op = op' /\ ArgsValid(ret'.args, tbl.n)]_vars

CmpAborted ==
    /\ pc = "panic"
    /\ op = "cmp"
    /\ ret = NoRet
    /\ arr = Banana

\* C14: on the empty sequence suffix_array and lcp build the table over the
\* padded sequence of length 1 without failing; suffix_array returns the empty
\* array and lcp a pair of empty arrays.
EmptyInputAccepted ==
    (Len(arr) = 0 /\ op \in {"suffix_array", "lcp"}) =>
        /\ pc # "panic"
        /\ pc \in {"dbf_while", "dbf_ret"} => Len(src) = 1
        /\ ret.op = "suffix_array" => ret.val = <<>>
        /\ ret.op = "lcp" => ret.val = << <<>>, <<>> >>

LcpOfEmptyReturned ==
    /\ Len(arr) = 0
    /\ ret.op = "lcp"
    /\ ret.val = << <<>>, <<>> >>

\* C17: level 0 is the dense rank of the single elements: the order and the
\* equality of the ranks are those of the elements, and the ranks are exactly
\* 0..m-1 for the m distinct elements.
Level0IsDenseRank ==
    pc \in {"dbf_while", "dbf_ret"} =>
        /\ \A p, q \in DOMAIN src :
              /\ (dbf[0][p] < dbf[0][q]) <=> (src[p] < src[q])
              /\ (dbf[0][p] = dbf[0][q]) <=> (src[p] = src[q])
        /\ RankSet(0) = 0..(Cardinality({src[p] : p \in DOMAIN src}) - 1)

\* level 0 just built from a sort that did not keep equal elements in index order
Level0BuiltFromUnstableOrder ==
    /\ pc = "dbf_while"
    /\ Len(dbf) = 1
    /\ Cardinality(RankSet(0)) > 1
    /\ \E a, b \in DOMAIN order : a < b /\ src[order[a]] = src[order[b]] /\ order[a] > order[b]

\* the pair key of position p at level h >= 1
PairKey(h, p) == <<dbf[h - 1][p], dbf[h - 1][(p + 2 ^ (h - 1)) % Len(src)]>>

PairLess(x, y) == x[1] < y[1] \/ (x[1] = y[1] /\ x[2] < y[2])

\* C18: at every level h >= 1 the ranks are the dense ranks of the pair keys
\* (rank_{h-1}[p], rank_{h-1}[(p + 2^(h-1)) mod n]): equal rank iff equal key,
\* smaller rank iff lexicographically smaller key, ranks exactly 0..m-1 for the
\* m distinct keys.
RanksAreDenseRanksOfPairKeys ==
    pc \in {"dbf_while", "dbf_ret"} =>
        \A h \in DOMAIN dbf \ {0} :
            /\ \A p, q \in DOMAIN src :
                  /\ (dbf[h][p] = dbf[h][q]) <=> (PairKey(h, p) = PairKey(h, q))
                  /\ (dbf[h][p] < dbf[h][q]) <=> PairLess(PairKey(h, p), PairKey(h, q))
            /\ RankSet(h) = 0..(Cardinality({PairKey(h, p) : p \in DOMAIN src}) - 1)

\* two positions ordered at level 2 by the second component of their keys
RankDecidedBySecondComponent ==
    /\ pc = "dbf_ret"
    /\ Len(dbf) >= 3
    /\ \E p, q \in DOMAIN src :
          /\ PairKey(2, p)[1] = PairKey(2, q)[1]
          /\ dbf[2][p] < dbf[2][q]

\* f holds every index of [0, n) exactly once
IsPermutation(f, n) ==
    /\ DOMAIN f = 0..(n - 1)
    /\ \A x \in 0..(n - 1) : Cardinality({a \in DOMAIN f : f[a] = x}) = 1

\* the slot of position p in the permutation f
SlotOf(f, p) == CHOOSE a \in DOMAIN f : f[a] = p

\* C19: in the round that built the newest level, each counting-sort pass,
\* started on a buffer of unwritten slots, fills every slot exactly once and
\* keeps the order of its input among equal keys; `order` is the result of the
\* second pass, a permutation of [0, n) with non-decreasing pair keys.
CountingPassesSortPairKeys ==
    (pc \in {"dbf_while", "dbf_ret"} /\ Len(dbf) >= 2) =>
        LET h == Len(dbf) - 1
            n == Len(src)
            last == dbf[h - 1]
            off == 2 ^ (h - 1)
            row1 == Pass1Loop(last, off, Vec(n, -1), Starts(last, n), 0)
            order2 == Pass2Loop(last, row1, Vec(n, -1), Starts(last, n), 0)
        IN  /\ IsPermutation(row1, n)
            /\ \A a, b \in 0..(n - 1) : a < b =>
                  \/ PairKey(h, row1[a])[2] < PairKey(h, row1[b])[2]
                  \/ PairKey(h, row1[a])[2] = PairKey(h, row1[b])[2] /\ row1[a] < row1[b]
            /\ IsPermutation(order2, n)
            /\ \A a, b \in 0..(n - 1) : a < b =>
                  \/ PairKey(h, order2[a])[1] < PairKey(h, order2[b])[1]
                  \/ /\ PairKey(h, order2[a])[1] = PairKey(h, order2[b])[1]
                     /\ SlotOf(row1, order2[a]) < SlotOf(row1, order2[b])
            /\ order = order2
            /\ \A a, b \in 0..(n - 1) : a < b =>
                  ~PairLess(PairKey(h, order[b]), PairKey(h, order[a]))

\* a first round whose sorted order holds equal keys and is not the index order
RoundSortedWithTies ==
    /\ pc = "dbf_while"
    /\ Len(dbf) = 2
    /\ \E a \in DOMAIN order : order[a] # a
    /\ \E a, b \in DOMAIN order : a # b /\ PairKey(1, order[a]) = PairKey(1, order[b])

\* C20: at every level h >= 1, two positions of equal rank have equal rank at
\* level h-1, and so have their partners 2^(h-1) further on (modulo n).
RanksRefinePreviousLevel ==
    pc \in {"dbf_while", "dbf_ret"} =>
        \A h \in DOMAIN dbf \ {0} : \A p, q \in DOMAIN src :
            dbf[h][p] = dbf[h][q] =>
                /\ dbf[h - 1][p] = dbf[h - 1][q]
                /\ dbf[h - 1][(p + 2 ^ (h - 1)) % Len(src)]
                     = dbf[h - 1][(q + 2 ^ (h - 1)) % Len(src)]

\* a finished table with two positions of equal rank at level 2
EqualRanksAtLevelTwo ==
    /\ pc = "dbf_ret"
    /\ Len(dbf) >= 3
    /\ \E p, q \in DOMAIN src : p # q /\ dbf[2][p] = dbf[2][q]

----------------------------------------------------------------------------
\* the product of a[lo..hi-1] in increasing index order, ID when lo = hi
RECURSIVE Product(_, _, _)
Product(a, lo, hi) == IF lo >= hi THEN ID ELSE MonoidOp(a[lo], Product(a, lo + 1, hi))

\* C15: once the tree is built, and after any updates at valid positions, every
\* query(l, r) with 0 <= l <= r <= N gives the product in increasing index order
\* of the current values at l..r-1 (the identity for l = r), and so does the
\* value a query has returned.
QueryIsProductOfCurrentValues ==
    /\ st # NoSeg =>
          /\ st.size = Len(array)
          /\ \A lo, hi \in 0..st.size :
                lo <= hi => /\ QueryAssert(st, lo, hi)
                            /\ query(st, lo, hi) = Product(array, lo, hi)
    /\ ret.op = "query" => ret.val = Product(array, ret.args[1], ret.args[2])

\* a query over three positions of a tree of size 3, after an update, returned a
\* product in which the generators alternate
QueryAfterUpdateReturned ==
    /\ ret.op = "query"
    /\ st.size = 3
    /\ updated
    /\ ret.args = <<0, 3>>
    /\ ret.val = FromTuple(<<1, 0, 1>>)

----------------------------------------------------------------------------
\* the index of the first element of a that is not smaller than val, the
\* length of a if there is none
FirstNotSmaller(a, val) == Least({p \in DOMAIN a : a[p] >= val} \cup {Len(a)})

\* C16: on every SortedVec and for every v, lower_bound(v) returns, and what it
\* returns is the index of the first element not smaller than v, or the length
\* if there is no such element.
LowerBoundIsFirstNotSmaller ==
    op = "lower_bound" =>
        /\ pc # "panic"
        /\ ret.op = "lower_bound" => ret.val = FirstNotSmaller(sv, ret.args[1])

\* the same on the vectors that have an element (not the claim: the claim is
\* about every SortedVec)
LowerBoundOnNonEmpty ==
    (op = "lower_bound" /\ Len(sv) > 0) =>
        /\ pc # "panic"
        /\ ret.op = "lower_bound" => ret.val = FirstNotSmaller(sv, ret.args[1])

\* lower_bound on the empty SortedVec has panicked
LowerBoundOfEmptyPanicked == op = "lower_bound" /\ Len(sv) = 0 /\ pc = "panic"

----------------------------------------------------------------------------
\* C21: in suffix_array (and in lcp, which calls it) the last row of the table
\* over the padded sequence of length n+1 is a permutation of [0, n], the
\* sentinel position n has rank 0 and every real position a rank in [1, n]; the
\* inversion, started on unwritten slots, writes every output index x-1 of
\* [0, n) exactly once, every real position is in the output, and the suffix
\* array it leaves is that output.
PaddedLastRowInvertsOnce ==
    LET n == Len(arr)
    IN  /\ (pc = "dbf_ret" /\ op \in {"suffix_array", "lcp"}) =>
              LET last == last_row([n |-> Len(src), dbf |-> dbf])
                  out == InvertLoop(last, Vec(n, -1), 0)
              IN  /\ Len(last) = n + 1
                  /\ \A x \in 0..n : Cardinality({p \in 0..n : last[p] = x}) = 1
                  /\ last[n] = 0
                  /\ \A p \in 0..(n - 1) : last[p] \in 1..n
                  /\ \A x \in 0..(n - 1) :
                        Cardinality({p \in 0..n : last[p] # 0 /\ last[p] - 1 = x}) = 1
                  /\ \A p \in 0..(n - 1) : \E x \in 0..(n - 1) : out[x] = p
                  /\ out = InvertLoop(last, Vec(n, 0), 0)
        /\ pc = "sa_ret" => IsPermutation(suffix_array, n)

\* the last row over the padded "banana" has been inverted
PaddedBananaInverted ==
    /\ pc = "sa_ret"
    /\ op = "suffix_array"
    /\ arr = Banana
    /\ suffix_array = FromTuple(<<5, 3, 1, 0, 4, 2>>)

----------------------------------------------------------------------------
\* z_array is between two iterations of its for loop, or about to return
ZBetweenIterations == op = "z_array" /\ pc = "z_for"

\* the window [l, r) lies in the sequence and repeats the prefix of length r - l
WindowIsPrefixMatch ==
    /\ l <= r /\ r <= Len(arr)
    /\ \A t \in 0..(r - l - 1) : arr[l + t] = arr[t]

\* the window is used for position i: l <= i, the index i - l read from z is a
\* position already computed, and the seed is at most the true z[i]
WindowUseIsSound ==
    (i < Len(arr)) =>
        /\ i <= r => (l <= i /\ i - l \in 1..(i - 1))
        /\ ZSeed(z, l, r, i) <= CommonPrefix(arr, 0, i)

\* one step inside z_array does not move the window backwards
WindowAdvances ==
    (op = "z_array" /\ pc \in {"z_for", "z_while"} /\ pc' \in {"z_for", "z_while"}) =>
        (r' >= r /\ l' >= l)

\* C22: during z_array r never decreases, l <= i whenever the window is used,
\* after each iteration the elements at l..r-1 equal those at 0..r-l-1, and
\* the seed min(r - i, z[i - l]) is never above the true z[i].
ZWindowIsRightmostMatch ==
    /\ [](ZBetweenIterations => (WindowIsPrefixMatch /\ WindowUseIsSound))
    /\ [][WindowAdvances]_vars

\* the window is used with its min deciding: the seed is r - i, below z[i - l]
ZSeedCutByWindow ==
    /\ op = "z_array" /\ pc = "z_for"
    /\ i < Len(arr)
    /\ i <= r
    /\ r - i < z[i - l]
    /\ r - i > 0

----------------------------------------------------------------------------
\* the suffix at position p is not the last one in sorted order
HasNext(p) == inv[p] # Len(arr) - 1

\* the suffix that follows the one at p in sorted order
NextSuffix(p) == suffix_array[inv[p] + 1]

\* the first kk elements of the suffixes of a at p and at q exist and are equal
FirstEqual(a, p, q, kk) ==
    /\ p + kk <= Len(a)
    /\ q + kk <= Len(a)
    /\ \A t \in 0..(kk - 1) : a[p + t] = a[q + t]

\* C23: in lcp, for every position i whose suffix is not last in sorted order,
\* the k carried into the extension loop (and k at every iteration of it) is a
\* lower bound: with j the next suffix, i + k <= n, j + k <= n and the first k
\* elements of the suffixes at i and j are equal; and once the loop over i is
\* done, the length recorded for position p+1 is at least the one recorded for
\* p minus one, both being the true common-prefix lengths.
CarriedKIsLowerBound ==
    /\ (op = "lcp" /\ i < Len(arr)
          /\ (pc = "lcp_while" \/ (pc = "lcp_for" /\ HasNext(i)))) =>
             /\ FirstEqual(arr, i, NextSuffix(i), k)
             /\ k <= CommonPrefix(arr, i, NextSuffix(i))
    /\ (op = "lcp" /\ pc = "lcp_for" /\ i >= Len(arr)) =>
          \A p \in 0..(Len(arr) - 2) :
              (HasNext(p) /\ HasNext(p + 1)) =>
                  /\ lcp[inv[p] + 1] = CommonPrefix(arr, p, NextSuffix(p))
                  /\ lcp[inv[p + 1] + 1] = CommonPrefix(arr, p + 1, NextSuffix(p + 1))
                  /\ lcp[inv[p + 1] + 1] >= lcp[inv[p] + 1] - 1

\* a match of two elements is carried into the extension loop of a position
\* whose suffix has a successor
KCarriedIntoLoop ==
    /\ op = "lcp" /\ pc = "lcp_for"
    /\ i < Len(arr)
    /\ HasNext(i)
    /\ k >= 2

----------------------------------------------------------------------------
\* a call has been entered on an input that satisfies its precondition: the
\* slice given to DBF::from has an element (z_array on the empty slice panics
\* at its call, suffix_array and lcp pad their input)
Entered == pc \notin {"idle", "panic"} /\ (pc = "dbf_level0" => Len(src) >= 1)

\* the call is over and its caller has the result
Returned == pc = "idle" /\ (ret # NoRet \/ tbl # NoDBF)

\* C24: z_array, DBF::from, suffix_array and lcp, entered on an input that
\* satisfies the precondition, eventually reach their return: no loop runs
\* forever, and the level-0 step always has an order to go on with.
EveryCallReturns ==
    /\ Entered ~> Returned
    /\ []((pc = "dbf_level0" /\ Len(src) >= 1) => sort_unstable_by_key(src) # {})

\* lcp has returned on four equal elements, after three rounds of the doubling
\* loop and extension loops of up to three iterations
LcpOfFourEqualReturned ==
    /\ pc = "idle"
    /\ ret.op = "lcp"
    /\ Len(arr) = 4
    /\ ret.val[2] = FromTuple(<<0, 1, 2, 3>>)

----------------------------------------------------------------------------
\* lines 78-130 run to the end from the table tab, the row rw and the order ord
RECURSIVE DoWhile(_, _, _, _)
DoWhile(tab, rw, ord, n) ==
    LET tab2 == Push(tab, RoundRow(tab, rw, ord))
    IN  IF DoWhileCond(tab2, n)
        THEN DoWhile(tab2, RoundRow(tab, rw, ord), RoundOrder(tab, rw, ord), n)
        ELSE tab2

\* lines 63-132: the table DBF::from builds over a when its level-0 sort gives ord
DBFFrom(a, ord) == DoWhile(Push(<<>>, Level0Row(a, ord)), Level0Row(a, ord), ord, Len(a))

\* lines 244-258: the suffix array from the table over the padded a
SuffixArrayFrom(a, ord) ==
    InvertLoop(last_row([n |-> Len(a) + 1, dbf |-> DBFFrom(Augment(a), ord)]), Vec(Len(a), 0), 0)

\* C25: the table is a function of the input alone: the table a run has built,
\* its level 0 included, is the one built from every order the unstable level-0
\* sort can give, and the suffix array and the LCP array returned are those of
\* every such order.
TableIndependentOfTieOrder ==
    /\ pc = "dbf_ret" =>
          \A ord \in sort_unstable_by_key(src) : dbf = DBFFrom(src, ord)
    /\ ret.op = "suffix_array" =>
          \A ord \in sort_unstable_by_key(Augment(arr)) : ret.val = SuffixArrayFrom(arr, ord)
    /\ ret.op = "lcp" =>
          /\ \A ord \in sort_unstable_by_key(Augment(arr)) :
                ret.val[1] = SuffixArrayFrom(arr, ord)
          /\ \A x \in 1..(Len(arr) - 1) :
                ret.val[2][x] = CommonPrefix(arr, ret.val[1][x - 1], ret.val[1][x])
          /\ Len(arr) > 0 => ret.val[2][0] = 0

\* a table of three levels is built over a sequence whose level-0 sort has
\* more than one possible order
TableBuiltOverTies ==
    /\ pc = "dbf_ret"
    /\ op = "DBF::from"
    /\ Len(dbf) = 3
    /\ Cardinality(sort_unstable_by_key(src)) > 1

====
